---- MODULE Spec2Model ----
(***************************************************************************)
(* A model of furaffinity-rs (src/lib.rs): the submission page extractor,  *)
(* the date normaliser, the content resolver, the navigation-link parser,  *)
(* the front-page reader and the image fingerprinting call.                *)
(*                                                                         *)
(* Text is modelled as a sequence of tokens.  A token is a maximal chunk   *)
(* of the string that the code never looks inside: a separator character   *)
(* the code splits on, a word, or a run of digits.  Every operator below   *)
(* splits, trims, matches and converts these sequences the way the code    *)
(* does with the characters.                                               *)
(*                                                                         *)
(* Option<T> is a sequence of length at most one: None is << >>, Some(x)   *)
(* is <<x>>.                                                               *)
(***************************************************************************)
EXTENDS Integers, Sequences, FiniteSets, TLC

VARIABLES
    pc,      \* "idle": no call in progress; "returned": the last call returned
    op,      \* the name of the last operation called
    arg,     \* its input
    ret,     \* what it returned
    log,     \* the steps it performed, in order
    origin,  \* where the record handed to calc_image_hash came from
    calls    \* number of calc_image_hash calls made on that record

vars == <<pc, op, arg, ret, log, origin, calls>>

None == << >>
Some(x) == <<x>>
IsSome(o) == Len(o) = 1
Unwrap(o) == o[1]

(***************************************************************************)
(* Error                                                                   *)
(***************************************************************************)
Error_new(message, retry) == [kind |-> "Err", message |-> message, retry |-> retry]

FromReqwestError(e) == Error_new(e, TRUE)

FromImageError(e) == Error_new(e, FALSE)

FromParseIntError == Error_new("value was not number", FALSE)

(***************************************************************************)
(* Sequence helpers used by the string operations                          *)
(***************************************************************************)
RECURSIVE SeqsUpTo(_, _)
SeqsUpTo(S, n) ==
    IF n = 0 THEN { << >> }
    ELSE LET shorter == SeqsUpTo(S, n - 1)
         IN shorter \cup { Append(s, x) : s \in { t \in shorter : Len(t) = n - 1 }, x \in S }

\* index of the last element equal to c, 0 when there is none
LastIndexOf(s, c) ==
    LET hits == { i \in 1..Len(s) : s[i] = c }
    IN IF hits = {} THEN 0 ELSE CHOOSE i \in hits : \A j \in hits : j <= i

\* index of the first element equal to c, 0 when there is none
FirstIndexOf(s, c) ==
    LET hits == { i \in 1..Len(s) : s[i] = c }
    IN IF hits = {} THEN 0 ELSE CHOOSE i \in hits : \A j \in hits : i <= j

\* str.split(c).last(): the text after the last c, the whole text without one
SplitLast(s, c) == SubSeq(s, LastIndexOf(s, c) + 1, Len(s))

\* str.split(c), as the sequence of parts
RECURSIVE Split(_, _)
Split(s, c) ==
    LET i == FirstIndexOf(s, c)
    IN IF i = 0 THEN << s >>
       ELSE << SubSeq(s, 1, i - 1) >> \o Split(SubSeq(s, i + 1, Len(s)), c)

IsSubstring(x, s) ==
    \E i \in 0..(Len(s) - Len(x)) : SubSeq(s, i + 1, i + Len(x)) = x

(***************************************************************************)
(* join_text_nodes: the text of an element, trimmed.  White space is the   *)
(* token " ".                                                              *)
(***************************************************************************)
RECURSIVE TrimStart(_)
TrimStart(s) == IF s # << >> /\ Head(s) = " " THEN TrimStart(Tail(s)) ELSE s

RECURSIVE TrimEnd(_)
TrimEnd(s) ==
    IF s # << >> /\ s[Len(s)] = " " THEN TrimEnd(SubSeq(s, 1, Len(s) - 1)) ELSE s

join_text_nodes(text) == TrimEnd(TrimStart(text))

(***************************************************************************)
(* Decimal digit runs.  A run is a non-empty sequence of digits 0..9.      *)
(* str::parse::<usize>() and str::parse::<i32>() accept leading zeros and  *)
(* fail when the value exceeds the type's maximum.  The values of usize    *)
(* do not fit the model checker's integers, so a parsed number is kept as  *)
(* its canonical digit sequence (no leading zeros; zero is <<0>>).         *)
(* A digit run inside a text is one token; DigitsOf gives its digits.      *)
(***************************************************************************)
DigitsOf ==
    ("0" :> <<0>>) @@ ("00" :> <<0,0>>) @@ ("1" :> <<1>>) @@ ("5" :> <<5>>)
    @@ ("7" :> <<7>>) @@ ("007" :> <<0,0,7>>) @@ ("11" :> <<1,1>>)
    @@ ("12" :> <<1,2>>) @@ ("17" :> <<1,7>>) @@ ("23" :> <<2,3>>)
    @@ ("29" :> <<2,9>>) @@ ("31" :> <<3,1>>) @@ ("46" :> <<4,6>>)
    @@ ("59" :> <<5,9>>) @@ ("2019" :> <<2,0,1,9>>) @@ ("2024" :> <<2,0,2,4>>)
    @@ ("2025" :> <<2,0,2,5>>)
    @@ ("37545307" :> <<3,7,5,4,5,3,0,7>>) @@ ("37545317" :> <<3,7,5,4,5,3,1,7>>)
    @@ ("2147483647" :> <<2,1,4,7,4,8,3,6,4,7>>)
    @@ ("2147483648" :> <<2,1,4,7,4,8,3,6,4,8>>)
    @@ ("18446744073709551615" :> <<1,8,4,4,6,7,4,4,0,7,3,7,0,9,5,5,1,6,1,5>>)
    @@ ("18446744073709551616" :> <<1,8,4,4,6,7,4,4,0,7,3,7,0,9,5,5,1,6,1,6>>)

IsDigits(tok) == tok \in DOMAIN DigitsOf

RECURSIVE IntOf(_)
IntOf(d) == IF d = << >> THEN 0 ELSE 10 * IntOf(SubSeq(d, 1, Len(d) - 1)) + d[Len(d)]

RECURSIVE StripZeros(_)
StripZeros(d) == IF Len(d) > 1 /\ Head(d) = 0 THEN StripZeros(Tail(d)) ELSE d

RECURSIVE DigitsLeq(_, _)
DigitsLeq(a, b) ==   \* a <= b for canonical digit sequences
    IF Len(a) # Len(b) THEN Len(a) < Len(b)
    ELSE IF a = << >> THEN TRUE
    ELSE IF Head(a) # Head(b) THEN Head(a) < Head(b)
    ELSE DigitsLeq(Tail(a), Tail(b))

UsizeMax == <<1,8,4,4,6,7,4,4,0,7,3,7,0,9,5,5,1,6,1,5>>
I32Max == <<2,1,4,7,4,8,3,6,4,7>>

Zero == <<0>>

\* str::parse::<usize>().ok()
parse_usize(d) ==
    IF DigitsLeq(StripZeros(d), UsizeMax) THEN Some(StripZeros(d)) ELSE None

\* str::parse::<i32>().ok() on a digit run
parse_i32(d) ==
    IF DigitsLeq(StripZeros(d), I32Max) THEN Some(StripZeros(d)) ELSE None

(***************************************************************************)
(* parse_date.  chrono's datetime_from_str walks the items of the format   *)
(* "%B %e, %Y %I:%M:%S %p" over the text: white space in the format takes  *)
(* any white space, a numeric item skips white space and takes at most its *)
(* width in digits, %B takes a full or an abbreviated month name, a        *)
(* literal takes itself, and text left over is an error.                   *)
(***************************************************************************)
MonthNames ==
    << <<"January", "Jan">>, <<"February", "Feb">>, <<"March", "Mar">>,
       <<"April", "Apr">>, <<"May", "May">>, <<"June", "Jun">>,
       <<"July", "Jul">>, <<"August", "Aug">>, <<"September", "Sep">>,
       <<"October", "Oct">>, <<"November", "Nov">>, <<"December", "Dec">> >>

MonthOf(word) ==
    LET hits == { m \in 1..12 : word = MonthNames[m][1] \/ word = MonthNames[m][2] }
    IN IF hits = {} THEN 0 ELSE CHOOSE m \in hits : TRUE

\* the items of "%B %e, %Y %I:%M:%S %p"
DateFormat ==
    <<"%B", " ", "%e", ",", " ", "%Y", " ", "%I", ":", "%M", ":", "%S", " ", "%p">>

NumericWidth == [ e |-> 2, Y |-> 4, I |-> 2, M |-> 2, S |-> 2 ]

FieldOf(item) ==
    CASE item = "%e" -> "e" [] item = "%Y" -> "Y" [] item = "%I" -> "I"
      [] item = "%M" -> "M" [] item = "%S" -> "S"

NoFields == [ B |-> 0, e |-> 0, Y |-> 0, I |-> 0, M |-> 0, S |-> 0, p |-> "" ]

RECURSIVE StrfScan(_, _, _)
StrfScan(items, text, got) ==
    IF items = << >> THEN (IF text = << >> THEN Some(got) ELSE None)
    ELSE LET item == Head(items)
             rest == Tail(items)
             t    == TrimStart(text)
         IN CASE item = " " -> StrfScan(rest, t, got)
              [] item \in {"%e", "%Y", "%I", "%M", "%S"} ->
                    IF t # << >> /\ IsDigits(Head(t))
                         /\ Len(DigitsOf[Head(t)]) <= NumericWidth[FieldOf(item)]
                    THEN StrfScan(rest, Tail(t),
                                  [got EXCEPT ![FieldOf(item)] = IntOf(DigitsOf[Head(t)])])
                    ELSE None
              [] item = "%B" ->
                    IF text # << >> /\ MonthOf(Head(text)) # 0
                    THEN StrfScan(rest, Tail(text), [got EXCEPT !.B = MonthOf(Head(text))])
                    ELSE None
              [] item = "%p" ->
                    IF text # << >> /\ Head(text) \in {"AM", "PM"}
                    THEN StrfScan(rest, Tail(text), [got EXCEPT !.p = Head(text)])
                    ELSE None
              [] OTHER ->
                    IF text # << >> /\ Head(text) = item
                    THEN StrfScan(rest, Tail(text), got)
                    ELSE None

IsLeap(y) == (y % 4 = 0 /\ y % 100 # 0) \/ y % 400 = 0

DaysInMonth(y, m) ==
    IF m = 2 THEN (IF IsLeap(y) THEN 29 ELSE 28)
    ELSE IF m \in {4, 6, 9, 11} THEN 30 ELSE 31

\* days from 1970-01-01 to the civil date y-m-d
DaysFromCivil(y, m, d) ==
    LET yy  == IF m <= 2 THEN y - 1 ELSE y
        era == yy \div 400
        yoe == yy - era * 400
        mp  == (m + 9) % 12
        doy == (153 * mp + 2) \div 5 + d - 1
        doe == yoe * 365 + yoe \div 4 - yoe \div 100 + doy
    IN era * 146097 + doe - 719468

\* chrono::Utc.ymd(y, m, d).and_hms(h, mi, s), as seconds since the epoch
UtcYmdHms(y, m, d, h, mi, s) == DaysFromCivil(y, m, d) * 86400 + h * 3600 + mi * 60 + s

\* chrono::FixedOffset::west(5 * 3600), in seconds west of UTC
ZoneWestSeconds == 5 * 3600

ValidFields(f) ==
    /\ f.e >= 1 /\ f.e <= DaysInMonth(f.Y, f.B)
    /\ f.I >= 1 /\ f.I <= 12
    /\ f.M <= 59 /\ f.S <= 59

Hour24(f) == (f.I % 12) + (IF f.p = "PM" THEN 12 ELSE 0)

\* the instant of the parsed wall-clock fields read in the zone, in UTC
ToUtc(f) == UtcYmdHms(f.Y, f.B, f.e, Hour24(f), f.M, f.S) + ZoneWestSeconds

parse_date(date) ==
    LET parsed == StrfScan(DateFormat, date, NoFields)
    IN IF IsSome(parsed) /\ ValidFields(Unwrap(parsed))
       THEN [kind |-> "Ok", value |-> ToUtc(Unwrap(parsed))]
       ELSE Error_new("unable to parse date", FALSE)

(***************************************************************************)
(* Rating, Content, Submission                                             *)
(***************************************************************************)
Rating_parse(name) ==
    CASE name = <<"General">> -> Some("General")
      [] name = <<"Mature">>  -> Some("Mature")
      [] name = <<"Adult">>   -> Some("Adult")
      [] OTHER                -> None

Image(url) == [kind |-> "Image", url |-> url]
Flash(url) == [kind |-> "Flash", url |-> url]

(***************************************************************************)
(* extract_url: an element is the record of its attributes, each an        *)
(* Option; the url is "https:" followed by the attribute's text.           *)
(***************************************************************************)
extract_url(elem, attr) ==
    IF elem[attr] = None THEN None
    ELSE LET url == <<"https:">> \o Unwrap(elem[attr])
         IN Some([url      |-> url,
                  url_ext  |-> SplitLast(url, "."),
                  filename |-> SplitLast(url, "/")])

(***************************************************************************)
(* parse_submission.  A document is the record of what each selector of    *)
(* lines 5-33 finds in it: the first matching element (an Option), or all  *)
(* of them for TAGS.  A text element is its text; an element read through  *)
(* an attribute is the record of its attributes.                           *)
(***************************************************************************)
SystemError == <<"System", " ", "Error">>

title_system_error(document) ==
    IF document.PAGE_TITLE = None THEN FALSE
    ELSE join_text_nodes(Unwrap(document.PAGE_TITLE)) = SystemError

\* href.split_once("/user/"), then strip_suffix('/')
artist_of(document) ==
    IF document.ARTIST = None THEN None
    ELSE LET href == Unwrap(document.ARTIST).href
         IN IF href = None THEN None
            ELSE LET i == FirstIndexOf(Unwrap(href), "/user/")
                     path == SubSeq(Unwrap(href), i + 1, Len(Unwrap(href)))
                 IN IF i = 0 THEN None
                    ELSE IF path # << >> /\ path[Len(path)] = "/"
                         THEN Some(SubSeq(path, 1, Len(path) - 1))
                         ELSE Some(path)

Panic(message) == [kind |-> "Panic", message |-> message]

\* lines 260-274: the content, its extension and its file name
content_of(document) ==
    IF document.IMAGE_URL # None THEN
        LET e == extract_url(Unwrap(document.IMAGE_URL), "src")
        IN IF e = None THEN Error_new("missing image url", TRUE)
           ELSE [kind |-> "Ok", content |-> Image(Unwrap(e).url),
                 url_ext |-> Unwrap(e).url_ext, filename |-> Unwrap(e).filename]
    ELSE IF document.FLASH_OBJECT # None THEN
        LET e == extract_url(Unwrap(document.FLASH_OBJECT), "data")
        IN IF e = None THEN Error_new("missing flash url", TRUE)
           ELSE [kind |-> "Ok", content |-> Flash(Unwrap(e).url),
                 url_ext |-> Unwrap(e).url_ext, filename |-> Unwrap(e).filename]
    ELSE Panic("invalid submission type")

\* lines 276-280
rating_of(document) ==
    IF document.RATING = None
    THEN Error_new("unable to select submission rating", FALSE)
    ELSE LET r == Rating_parse(join_text_nodes(Unwrap(document.RATING)))
         IN IF r = None THEN Error_new("missing rating", TRUE)
            ELSE [kind |-> "Ok", value |-> Unwrap(r)]

\* lines 282-289
posted_at_of(document) ==
    IF document.POSTED_AT = None THEN Error_new("unable to select posted at", FALSE)
    ELSE IF Unwrap(document.POSTED_AT).title = None THEN Error_new("missing title", TRUE)
    ELSE [kind |-> "Ok", value |-> Unwrap(Unwrap(document.POSTED_AT).title)]

OkSome(sub) == [kind |-> "OkSome", sub |-> sub]
OkNone == [kind |-> "OkNone"]

not_found_titleOnly(document) == title_system_error(document)

\* lines 231-243: either sign that the submission does not exist
not_found(document) ==
    title_system_error(document) \/ document.ERROR_MESSAGE

\* lines 298-314
new_submission(id, title, artist, c, rating, posted_at, tags, description) ==
    [id |-> id, title |-> title, artist |-> artist, content |-> c.content,
     ext |-> c.url_ext, hash |-> None, hash_num |-> None,
     filename |-> c.filename, rating |-> rating, posted_at |-> posted_at,
     tags |-> tags, description |-> description,
     file_size |-> None, file_sha256 |-> None, file |-> None]

parse_submission(id, document) ==
    IF not_found(document) THEN OkNone
    ELSE IF document.TITLE = None THEN Error_new("unable to select title", FALSE)
    ELSE IF artist_of(document) = None THEN Error_new("unable to select artist", FALSE)
    ELSE IF content_of(document).kind # "Ok" THEN content_of(document)
    ELSE IF rating_of(document).kind # "Ok" THEN rating_of(document)
    ELSE IF posted_at_of(document).kind # "Ok" THEN posted_at_of(document)
    ELSE IF document.DESCRIPTION = None
         THEN Error_new("unable to select description", FALSE)
    ELSE IF parse_date(posted_at_of(document).value).kind # "Ok"
         THEN parse_date(posted_at_of(document).value)
    ELSE OkSome(new_submission(
            id,
            join_text_nodes(Unwrap(document.TITLE)),
            Unwrap(artist_of(document)),
            content_of(document),
            rating_of(document).value,
            parse_date(posted_at_of(document).value).value,
            [i \in 1..Len(document.TAGS) |-> join_text_nodes(document.TAGS[i])],
            Unwrap(document.DESCRIPTION)))

(***************************************************************************)
(* parse_nav_links, get_link_if_exists.  Markup is a sequence of nodes:    *)
(* a piece of text [tag |-> "text", s |-> ...] or an anchor element        *)
(* [tag |-> "a", href |-> Option].  The separator '|' is a text node of    *)
(* its own.                                                                *)
(***************************************************************************)
TextNode(s) == [tag |-> "text", s |-> s]
Anchor(href) == [tag |-> "a", href |-> href]
Pipe == TextNode("|")

\* LINK_ID.captures(href): the digits of the first "/view/<digits>" in href
link_id_captures(href) ==
    LET hits == { i \in 1..(Len(href) - 1) : href[i] = "/view/" /\ IsDigits(href[i + 1]) }
    IN IF hits = {} THEN None
       ELSE Some(DigitsOf[href[(CHOOSE i \in hits : \A j \in hits : i <= j) + 1]])

get_link_if_exists_lastAnchor(text) ==
    LET links == SelectSeq(text, LAMBDA n : n.tag = "a")
    IN IF links = << >> THEN None
       ELSE IF links[Len(links)].href = None THEN None
       ELSE IF link_id_captures(Unwrap(links[Len(links)].href)) = None THEN None
       ELSE parse_i32(Unwrap(link_id_captures(Unwrap(links[Len(links)].href))))

get_link_if_exists(text) ==
    LET links == SelectSeq(text, LAMBDA n : n.tag = "a")
    IN IF links = << >> THEN None
       ELSE IF Head(links).href = None THEN None
       ELSE IF link_id_captures(Unwrap(Head(links).href)) = None THEN None
       ELSE parse_i32(Unwrap(link_id_captures(Unwrap(Head(links).href))))

NavLinks(prev, first, next) == [prev |-> prev, first |-> first, next |-> next]

parse_nav_links(description) ==
    LET parts == Split(description, Pipe)
    IN IF Len(parts) < 3 THEN None
       ELSE Some(NavLinks(get_link_if_exists(parts[1]),
                          get_link_if_exists(parts[2]),
                          get_link_if_exists(parts[3])))

(***************************************************************************)
(* The fetch.  load_page either fails in the transport or gives a response *)
(* with a status and a body; reading the body (text(), bytes()) may fail   *)
(* in the transport too, which is a body of None.                          *)
(***************************************************************************)
TransportError == [kind |-> "transport_error"]
Response(status, body) == [kind |-> "response", status |-> status, body |-> body]

is_server_error_above500(status) == status > 500 /\ status <= 599
is_server_error(status) == status >= 500 /\ status <= 599

Outcome(r, steps) == [ret |-> r, log |-> steps]

(***************************************************************************)
(* latest_id.  The front page is the record of what ONLINE_STATS_ELEMENT   *)
(* and LATEST_SUBMISSION find.                                             *)
(***************************************************************************)
\* ONLINE_NUMBER.find_iter(text): the maximal digit runs of the text
RECURSIVE find_runs(_, _)
find_runs(text, run) ==
    IF text = << >> THEN (IF run = << >> THEN << >> ELSE << run >>)
    ELSE IF IsDigits(Head(text)) THEN find_runs(Tail(text), run \o DigitsOf[Head(text)])
    ELSE (IF run = << >> THEN << >> ELSE << run >>) \o find_runs(Tail(text), << >>)

\* filter_map(|m| m.as_str().parse::<usize>().ok())
RECURSIVE filter_map_parse(_)
filter_map_parse(runs) ==
    IF runs = << >> THEN << >>
    ELSE (IF parse_usize(Head(runs)) = None THEN << >>
          ELSE << Unwrap(parse_usize(Head(runs))) >>)
         \o filter_map_parse(Tail(runs))

\* numbers.next().unwrap_or_default(), for the k-th call
NextOrDefault(numbers, k) == IF k <= Len(numbers) THEN numbers[k] ELSE Zero

online_counts_swapped(document) ==
    LET online  == IF document.ONLINE_STATS = None THEN << >>
                   ELSE Unwrap(document.ONLINE_STATS)
        numbers == filter_map_parse(find_runs(online, << >>))
    IN [total      |-> NextOrDefault(numbers, 1),
        guests     |-> NextOrDefault(numbers, 3),
        registered |-> NextOrDefault(numbers, 2),
        other      |-> NextOrDefault(numbers, 4)]

\* lines 128-144
online_counts(document) ==
    LET online  == IF document.ONLINE_STATS = None THEN << >>
                   ELSE Unwrap(document.ONLINE_STATS)
        numbers == filter_map_parse(find_runs(online, << >>))
    IN [total      |-> NextOrDefault(numbers, 1),
        guests     |-> NextOrDefault(numbers, 2),
        registered |-> NextOrDefault(numbers, 3),
        other      |-> NextOrDefault(numbers, 4)]

\* str::parse::<i32>() on a path segment
segment_parse_i32(segment) ==
    IF segment # << >> /\ \A i \in 1..Len(segment) : IsDigits(segment[i])
    THEN parse_i32(Head(find_runs(segment, << >>)))
    ELSE None

\* lines 146-160
latest_of(document) ==
    IF document.LATEST_SUBMISSION = None THEN Error_new("value not found", FALSE)
    ELSE IF Unwrap(document.LATEST_SUBMISSION).href = None
         THEN Error_new("href not found", FALSE)
    ELSE LET parts == SelectSeq(Split(Unwrap(Unwrap(document.LATEST_SUBMISSION).href), "/"),
                                LAMBDA part : part # << >>)
         IN IF parts = << >> THEN Error_new("part not found", FALSE)
            ELSE IF segment_parse_i32(parts[Len(parts)]) = None THEN FromParseIntError
            ELSE [kind |-> "Ok", value |-> Unwrap(segment_parse_i32(parts[Len(parts)]))]

latest_id(page) ==
    IF page.kind = "transport_error"
    THEN Outcome(FromReqwestError("send"), <<"fetch">>)
    ELSE IF is_server_error(page.status)
    THEN Outcome(Error_new("got server error", TRUE), <<"fetch", "status">>)
    ELSE IF page.body = None
    THEN Outcome(FromReqwestError("body"), <<"fetch", "status", "body">>)
    ELSE LET document == Unwrap(page.body)
         IN Outcome(IF latest_of(document).kind # "Ok" THEN latest_of(document)
                    ELSE [kind |-> "Ok", id |-> latest_of(document).value,
                          online |-> online_counts(document)],
                    <<"fetch", "status", "body", "parse">>)

(***************************************************************************)
(* get_submission                                                          *)
(***************************************************************************)
get_submission(id, page) ==
    IF page.kind = "transport_error"
    THEN Outcome(FromReqwestError("send"), <<"fetch">>)
    ELSE IF is_server_error(page.status)
    THEN Outcome(Error_new("got server error", TRUE), <<"fetch", "status">>)
    ELSE IF page.body = None
    THEN Outcome(FromReqwestError("body"), <<"fetch", "status", "body">>)
    ELSE Outcome(parse_submission(id, Unwrap(page.body)),
                 <<"fetch", "status", "body", "parse">>)

(***************************************************************************)
(* calc_image_hash, hash_image.  A payload is its bytes together with what *)
(* the image decoder makes of them: None when they are no image, else the  *)
(* 8 bytes of the perceptual hash of the decoded image.  SHA-256, base64   *)
(* and the big-endian reading of the hash are kept as tagged values.       *)
(***************************************************************************)
hash_image(buf) ==
    IF buf.image = None THEN FromImageError("decode")
    ELSE [kind |-> "Ok", hash |-> Unwrap(buf.image)]

with_fingerprint_hashOnly(sub, buf, hash) ==
    [sub EXCEPT !.hash = Some([base64 |-> hash])]

with_fingerprint_tagsLost(sub, buf, hash) ==
    [sub EXCEPT !.hash        = Some([base64 |-> hash]),
                !.hash_num    = Some([be_i64 |-> hash]),
                !.file_size   = Some(Len(buf.bytes)),
                !.file_sha256 = Some([sha256 |-> buf.bytes]),
                !.file        = Some(buf.bytes),
                !.tags        = << >>]

\* lines 201-215
with_fingerprint(sub, buf, hash) ==
    [sub EXCEPT !.hash        = Some([base64 |-> hash]),
                !.hash_num    = Some([be_i64 |-> hash]),
                !.file_size   = Some(Len(buf.bytes)),
                !.file_sha256 = Some([sha256 |-> buf.bytes]),
                !.file        = Some(buf.bytes)]

calc_image_hash(sub, image) ==
    IF sub.content.kind = "Flash"
    THEN Outcome([kind |-> "Ok", sub |-> [sub EXCEPT !.hash = None]], << >>)
    ELSE IF image.kind = "transport_error"
    THEN Outcome(FromReqwestError("send"), <<"fetch">>)
    ELSE IF is_server_error(image.status)
    THEN Outcome(Error_new("got server error", TRUE), <<"fetch", "status">>)
    ELSE IF image.body = None
    THEN Outcome(FromReqwestError("body"), <<"fetch", "status", "body">>)
    ELSE LET buf == Unwrap(image.body)
         IN Outcome(IF hash_image(buf).kind # "Ok" THEN hash_image(buf)
                    ELSE [kind |-> "Ok",
                          sub |-> with_fingerprint(sub, buf, hash_image(buf).hash)],
                    <<"fetch", "status", "body", "digest", "decode">>)

(***************************************************************************)
(* Inputs                                                                  *)
(***************************************************************************)
\* longest asset reference (src or data attribute), in tokens
MaxUrlLen == 2

OrdinalSuffix(day) ==
    IF day \in {11, 12, 13} THEN "th"
    ELSE CASE day % 10 = 1 -> "st" [] day % 10 = 2 -> "nd"
           [] day % 10 = 3 -> "rd" [] OTHER -> "th"

\* a date of the site: month name (1: full, 2: abbreviated), day with or
\* without its ordinal suffix, year, 12-hour time with or without seconds
DateInputs ==
    [ form : {1, 2}, mon : {2, 3, 6, 12}, day : {"1", "17", "23", "29", "31"},
      ordinal : BOOLEAN, year : {"2019", "2024", "2025"},
      hour : {"12", "7", "11"}, min : {"00", "46"},
      sec : {None, Some("00"), Some("59")}, p : {"AM", "PM"} ]

DateText(d) ==
    << MonthNames[d.mon][d.form], " ", d.day >>
    \o (IF d.ordinal THEN << OrdinalSuffix(IntOf(DigitsOf[d.day])) >> ELSE << >>)
    \o << ",", " ", d.year, " ", d.hour, ":", d.min >>
    \o (IF d.sec = None THEN << >> ELSE << ":", Unwrap(d.sec) >>)
    \o << " ", d.p >>

Mar23rd2019 ==
    [form |-> 2, mon |-> 3, day |-> "23", ordinal |-> TRUE, year |-> "2019",
     hour |-> "12", min |-> "46", sec |-> None, p |-> "AM"]

June17th2025 ==
    [form |-> 1, mon |-> 6, day |-> "17", ordinal |-> FALSE, year |-> "2025",
     hour |-> "12", min |-> "00", sec |-> Some("00"), p |-> "PM"]

Padded(text) == <<" ">> \o text \o <<" ">>

AssetRefs == SeqsUpTo({"/", ".", "a"}, MaxUrlLen)

Documents ==
    [ PAGE_TITLE    : {None, Some(SystemError), Some(Padded(SystemError)),
                       Some(<<"Bilberry", " ", "fox">>)},
      ERROR_MESSAGE : BOOLEAN,
      TITLE         : {None, Some(Padded(<<"Bilberry", " ", "fox">>))},
      ARTIST        : {None, Some([href |-> None]),
                       Some([href |-> Some(<<"/user/", "deadrussiansoul", "/">>)]),
                       Some([href |-> Some(<<"/view/", "1">>)]),
                       Some([href |-> Some(<<"/user/", "deadrussiansoul">>)])},
      IMAGE_URL     : {None, Some([src |-> None])}
                      \cup { Some([src |-> Some(a)]) : a \in AssetRefs },
      FLASH_OBJECT  : {None, Some([data |-> None]),
                       Some([data |-> Some(<<"/", "/", "d", ".", "net", "/", "a", ".", "swf">>)])},
      RATING        : {None, Some(<<"General">>), Some(Padded(<<"Mature">>)),
                       Some(<<"Adult">>), Some(<<"Teen">>)},
      POSTED_AT     : {None, Some([title |-> None]),
                       Some([title |-> Some(DateText(June17th2025))]),
                       Some([title |-> Some(DateText(Mar23rd2019))]),
                       Some([title |-> Some(<<"yesterday">>)])},
      TAGS          : {<< <<"fox">>, Padded(<<"bilberry">>) >>},
      DESCRIPTION   : {None, Some(<<"<p>", "text", "</p>">>)} ]

SubmissionIds == {31209021}

\* longest navigation markup, in nodes
MaxMarkupLen == 5

NavNodes ==
    { Pipe, TextNode("NEXT"), Anchor(None),
      Anchor(Some(<<"/user/", "deadrussiansoul">>)),
      Anchor(Some(<<"/view/", "37545307">>)),
      Anchor(Some(<<"https://www.furaffinity.net", "/view/", "37545317", "/">>)),
      Anchor(Some(<<"/view/", "2147483648">>)) }

NavMarkups == SeqsUpTo(NavNodes, MaxMarkupLen)

Statuses == {200, 404, 500, 503}

Responses(bodies) ==
    {TransportError}
    \cup { Response(s, b) : s \in Statuses, b \in {None} \cup { Some(x) : x \in bodies } }

\* most digit runs in the online-stats text
MaxRuns == 5

RECURSIVE StatsText(_)
StatsText(runs) ==
    IF runs = << >> THEN <<"online">>
    ELSE <<Head(runs), ",">> \o StatsText(Tail(runs))

FrontPages ==
    [ ONLINE_STATS      : {None} \cup { Some(StatsText(r)) :
                            r \in SeqsUpTo({"5", "007", "18446744073709551615",
                                            "18446744073709551616"}, MaxRuns) },
      LATEST_SUBMISSION : {None, Some([href |-> None]),
                           Some([href |-> Some(<<"/", "view", "/", "37545307", "/">>)]),
                           Some([href |-> Some(<<"/", "view", "/", "2147483647">>)]),
                           Some([href |-> Some(<<"/", "view", "/", "2147483648", "/">>)]),
                           Some([href |-> Some(<<"/", "view", "/">>)]),
                           Some([href |-> Some(<<"/", "/">>)])} ]

\* the pages get_submission is given
ViewPages ==
    [ PAGE_TITLE    : {None, Some(SystemError)},
      ERROR_MESSAGE : {FALSE},
      TITLE         : {Some(<<"Bilberry", " ", "fox">>)},
      ARTIST        : {Some([href |-> Some(<<"/user/", "deadrussiansoul", "/">>)])},
      IMAGE_URL     : {None, Some([src |-> Some(<<"/", "/", "d", ".", "net", "/", "a", ".", "png">>)])},
      FLASH_OBJECT  : {None, Some([data |-> Some(<<"/", "/", "d", ".", "net", "/", "a", ".", "swf">>)])},
      RATING        : {Some(<<"General">>), Some(<<"Teen">>)},
      POSTED_AT     : {Some([title |-> Some(DateText(June17th2025))])},
      TAGS          : {<< <<"fox">> >>},
      DESCRIPTION   : {Some(<<"<p>", "text", "</p>">>)} ]

Payloads ==
    { [bytes |-> << >>, image |-> None],
      [bytes |-> <<60, 104, 116>>, image |-> None],
      [bytes |-> <<137, 80, 78, 71>>, image |-> Some(<<0, 0, 0, 0, 0, 0, 0, 1>>)] }

\* most calc_image_hash calls made on one record
MaxCalls == 2

\* records a caller builds itself: every field of Submission is public
CallerRecords ==
    LET h == <<1, 2, 3, 4, 5, 6, 7, 8>>
    IN { [ new_submission(1, <<"t">>, <<"a">>,
                          [content |-> k, url_ext |-> <<"swf">>,
                           filename |-> <<"a", ".", "swf">>],
                          "Adult", 0, << <<"fox">> >>, <<"text">>)
           EXCEPT !.hash = a, !.hash_num = b, !.file_size = z,
                  !.file_sha256 = d, !.file = f ] :
           k \in { Image(<<"https:", "/", "a", ".", "swf">>),
                   Flash(<<"https:", "/", "a", ".", "swf">>) },
           a \in {None, Some([base64 |-> h])},
           b \in {None, Some([be_i64 |-> h])},
           z \in {None, Some(2)},
           d \in {None, Some([sha256 |-> <<9, 9>>])},
           f \in {None, Some(<<9, 9>>)} }

(***************************************************************************)
(* The state machine: one call per action, its input drawn from the sets   *)
(* above.                                                                  *)
(***************************************************************************)
Init ==
    /\ pc = "idle"
    /\ op = "none"
    /\ arg = None
    /\ ret = None
    /\ log = << >>
    /\ origin = "none"
    /\ calls = 0

ParseDate ==
    /\ pc = "idle"
    /\ \E d \in DateInputs :
          /\ arg' = [date |-> d, text |-> DateText(d)]
          /\ ret' = parse_date(DateText(d))
    /\ op' = "parse_date"
    /\ pc' = "returned"
    /\ UNCHANGED <<log, origin, calls>>

ParseSubmission ==
    /\ pc = "idle"
    /\ \E id \in SubmissionIds, document \in Documents :
          /\ arg' = [id |-> id, document |-> document]
          /\ ret' = parse_submission(id, document)
    /\ op' = "parse_submission"
    /\ pc' = "returned"
    /\ origin' = "parse"
    /\ UNCHANGED <<log, calls>>

ParseNavLinks ==
    /\ pc = "idle"
    /\ \E description \in NavMarkups :
          /\ arg' = [description |-> description]
          /\ ret' = parse_nav_links(description)
    /\ op' = "parse_nav_links"
    /\ pc' = "returned"
    /\ UNCHANGED <<log, origin, calls>>

LatestId ==
    /\ pc = "idle"
    /\ \E page \in Responses(FrontPages) :
          /\ arg' = [response |-> page]
          /\ ret' = latest_id(page).ret
          /\ log' = latest_id(page).log
    /\ op' = "latest_id"
    /\ pc' = "returned"
    /\ UNCHANGED <<origin, calls>>

GetSubmission ==
    /\ pc = "idle"
    /\ \E id \in SubmissionIds, page \in Responses(ViewPages) :
          /\ arg' = [id |-> id, response |-> page]
          /\ ret' = get_submission(id, page).ret
          /\ log' = get_submission(id, page).log
    /\ op' = "get_submission"
    /\ pc' = "returned"
    /\ origin' = "parse"
    /\ UNCHANGED calls

\* the records the caller can hand to calc_image_hash: one it built, the
\* one the extractor or the last call returned, or, after a failed call,
\* its clone of that call's input
HeldRecords ==
    IF pc = "idle" THEN CallerRecords
    ELSE IF op \in {"parse_submission", "get_submission"}
    THEN (IF ret.kind = "OkSome" THEN {ret.sub} ELSE {})
    ELSE IF op = "calc_image_hash"
    THEN (IF ret.kind = "Ok" THEN {ret.sub} ELSE {arg.sub})
    ELSE {}

CalcImageHash ==
    /\ calls < MaxCalls
    /\ \E sub \in HeldRecords, image \in Responses(Payloads) :
          /\ arg' = [sub |-> sub, response |-> image]
          /\ ret' = calc_image_hash(sub, image).ret
          /\ log' = calc_image_hash(sub, image).log
    /\ op' = "calc_image_hash"
    /\ pc' = "returned"
    /\ origin' = (IF pc = "idle" THEN "caller" ELSE origin)
    /\ calls' = calls + 1

NextNav == ParseNavLinks
SpecNav == Init /\ [][NextNav]_vars

NextFront == LatestId
SpecFront == Init /\ [][NextFront]_vars

NextFetch == LatestId \/ GetSubmission \/ CalcImageHash
SpecFetch == Init /\ [][NextFetch]_vars

NextHash == ParseSubmission \/ CalcImageHash
SpecHash == Init /\ [][NextHash]_vars

Next ==
    \/ ParseDate \/ ParseSubmission \/ ParseNavLinks
    \/ LatestId \/ GetSubmission \/ CalcImageHash
Spec == Init /\ [][Next]_vars

NextDate == ParseDate
SpecDate == Init /\ [][NextDate]_vars

NextParse == ParseSubmission
SpecParse == Init /\ [][NextParse]_vars

(***************************************************************************)
(* Claims about parse_submission (SpecParse)                               *)
(***************************************************************************)
Returned(name) == pc = "returned" /\ op = name

\* the two signs of a submission that does not exist, read off the input
NotFoundSignal(document) ==
    \/ /\ document.PAGE_TITLE # None
       /\ TrimEnd(TrimStart(Unwrap(document.PAGE_TITLE))) = SystemError
    \/ document.ERROR_MESSAGE

\* C1: a document whose trimmed page title is "System Error" or that holds
\* an error/notice element makes parse_submission return Ok(None), whatever
\* the other fields are.
C1_NotFoundIsOkNone ==
    (Returned("parse_submission") /\ NotFoundSignal(arg.document)) => ret = OkNone

C1_Witness ==
    /\ Returned("parse_submission")
    /\ arg.document.ERROR_MESSAGE
    /\ arg.document.PAGE_TITLE = None
    /\ arg.document.TITLE = None
    /\ arg.document.IMAGE_URL = None /\ arg.document.FLASH_OBJECT = None
    /\ arg.document.RATING = Some(<<"Teen">>)
    /\ arg.document.POSTED_AT = Some([title |-> Some(<<"yesterday">>)])
    /\ ret = OkNone

\* C2: parse_submission ends in Ok(Some), Ok(None) or Err for every
\* document, and a document with title and artist but neither content
\* marker gives Err with retry = false.
C2_NeverPanics ==
    Returned("parse_submission") =>
        /\ ret.kind \in {"OkSome", "OkNone", "Err"}
        /\ ( /\ ~NotFoundSignal(arg.document)
             /\ arg.document.TITLE # None
             /\ artist_of(arg.document) # None
             /\ arg.document.IMAGE_URL = None
             /\ arg.document.FLASH_OBJECT = None )
           => (ret.kind = "Err" /\ ret.retry = FALSE)

\* C3: an Err returned because the rating text is not General, Mature or
\* Adult, or because the posted-at text is not a date, has retry = false.
C3_MalformedValueNotRetryable ==
    ( /\ Returned("parse_submission")
      /\ ret.kind = "Err"
      /\ ret.message \in {"missing rating", "unable to parse date"} )
    => ret.retry = FALSE

\* the text after the last '/' of a url
FinalSegment(url) == SubSeq(url, LastIndexOf(url, "/") + 1, Len(url))

\* C8: filename and ext of a returned Submission are substrings of the
\* final path segment of its content url.
C8_ExtAndFilenameInFinalSegment ==
    (Returned("parse_submission") /\ ret.kind = "OkSome") =>
        /\ IsSubstring(ret.sub.filename, FinalSegment(ret.sub.content.url))
        /\ IsSubstring(ret.sub.ext, FinalSegment(ret.sub.content.url))

(***************************************************************************)
(* Claims about parse_date (SpecDate)                                      *)
(***************************************************************************)
ValidCalendarDate(d) ==
    IntOf(DigitsOf[d.day]) <= DaysInMonth(IntOf(DigitsOf[d.year]), d.mon)

\* the wall-clock reading of d at UTC-5, plus five hours
ExpectedInstant(d) ==
    LET h12 == IntOf(DigitsOf[d.hour])
        h24 == (IF h12 = 12 THEN 0 ELSE h12) + (IF d.p = "PM" THEN 12 ELSE 0)
        s   == IF d.sec = None THEN 0 ELSE IntOf(DigitsOf[Unwrap(d.sec)])
    IN DaysFromCivil(IntOf(DigitsOf[d.year]), d.mon, IntOf(DigitsOf[d.day])) * 86400
       + (h24 + 5) * 3600 + IntOf(DigitsOf[d.min]) * 60 + s

\* C7: every date text of either template (ordinal suffix or not, seconds
\* or not) parses to its UTC-5 reading plus five hours; "Mar 23rd, 2019
\* 12:46 AM" gives 2019-03-23T05:46:00Z and "June 17, 2025 12:00:00 PM"
\* gives 2025-06-17T17:00:00Z.
C7_DateNormalised ==
    Returned("parse_date") =>
        /\ ValidCalendarDate(arg.date)
              => ret = [kind |-> "Ok", value |-> ExpectedInstant(arg.date)]
        /\ arg.date = Mar23rd2019
              => ret = [kind |-> "Ok", value |-> UtcYmdHms(2019, 3, 23, 5, 46, 0)]
        /\ arg.date = June17th2025
              => ret = [kind |-> "Ok", value |-> UtcYmdHms(2025, 6, 17, 17, 0, 0)]

(***************************************************************************)
(* Claims about the fetching operations (SpecFetch)                        *)
(***************************************************************************)
Fetched == \E i \in 1..Len(log) : log[i] = "fetch"

\* C4: in latest_id, get_submission and calc_image_hash a transport
\* failure or a 5xx status gives Err with retry = true, the status is
\* checked before the body is read, and on a 5xx response nothing is read,
\* parsed, digested or decoded.
C4_ServerErrorBeforeBody ==
    (pc = "returned" /\ op \in {"latest_id", "get_submission", "calc_image_hash"}
       /\ Fetched) =>
        /\ arg.response.kind = "transport_error"
              => (ret.kind = "Err" /\ ret.retry = TRUE /\ log = <<"fetch">>)
        /\ (arg.response.kind = "response" /\ arg.response.status \in 500..599)
              => ( /\ ret.kind = "Err" /\ ret.retry = TRUE
                   /\ \A i \in 1..Len(log) : log[i] \in {"fetch", "status"} )
        /\ (arg.response.kind = "response" /\ arg.response.status \notin 500..599
              /\ arg.response.body = None)
              => (ret.kind = "Err" /\ ret.retry = TRUE)
        /\ \A i \in 1..Len(log) :
              log[i] \in {"body", "parse", "digest", "decode"}
                 => \E j \in 1..(i - 1) : log[j] = "status"

C4_Witness ==
    /\ Returned("calc_image_hash")
    /\ arg.sub.content.kind = "Image"
    /\ arg.response.kind = "response" /\ arg.response.status = 500
    /\ arg.response.body # None
    /\ ret.kind = "Err" /\ ret.retry = TRUE
    /\ log = <<"fetch", "status">>

(***************************************************************************)
(* Claims about the fingerprint (SpecHash)                                 *)
(***************************************************************************)
Fingerprint(sub) == <<sub.hash, sub.hash_num, sub.file_size, sub.file_sha256, sub.file>>

AllAbsent(sub) == \A i \in 1..5 : Fingerprint(sub)[i] = None
AllPresent(sub) == \A i \in 1..5 : Fingerprint(sub)[i] # None

NonFingerprint(sub) ==
    <<sub.id, sub.title, sub.artist, sub.content, sub.ext, sub.filename,
      sub.rating, sub.posted_at, sub.tags, sub.description>>

\* the records in the state: the input of the call and the one it returned
Records ==
    (IF op = "calc_image_hash" THEN {arg.sub} ELSE {})
    \cup (IF op \in {"parse_submission", "get_submission", "calc_image_hash"}
             /\ ret.kind \in {"OkSome", "Ok"}
          THEN {ret.sub} ELSE {})

\* C5: in every record reached by parse_submission and then any number of
\* calc_image_hash calls, the five fingerprint fields are all absent or all
\* present; all absent right after parse_submission, and all absent when
\* the content is Flash.
C5_FingerprintAllOrNothing ==
    (pc = "returned" /\ origin = "parse") =>
        /\ \A sub \in Records :
              /\ AllAbsent(sub) \/ AllPresent(sub)
              /\ sub.content.kind = "Flash" => AllAbsent(sub)
        /\ (op = "parse_submission" /\ ret.kind = "OkSome") => AllAbsent(ret.sub)

\* a failed call followed by a successful one on the clone
C5_Witness ==
    /\ Returned("calc_image_hash") /\ origin = "parse" /\ calls = 2
    /\ AllAbsent(arg.sub)
    /\ ret.kind = "Ok" /\ AllPresent(ret.sub)

\* C6: calc_image_hash returns a record with the ten other fields of its
\* input unchanged; on Flash content it fetches nothing, returns Ok and
\* leaves the fingerprint as absent as it was: hash is None and the other
\* four fields are those of the input.
C6_FrameAndFlashNoOp ==
    Returned("calc_image_hash") =>
        /\ ret.kind = "Ok" => NonFingerprint(ret.sub) = NonFingerprint(arg.sub)
        /\ arg.sub.content.kind = "Flash" =>
              /\ log = << >>
              /\ ret.kind = "Ok"
              /\ ret.sub.hash = None
              /\ \A i \in 2..5 : Fingerprint(ret.sub)[i] = Fingerprint(arg.sub)[i]
              /\ AllAbsent(arg.sub) => AllAbsent(ret.sub)

C6_Witness ==
    /\ Returned("calc_image_hash") /\ origin = "parse"
    /\ arg.sub.content.kind = "Flash"
    /\ arg.response.kind = "response" /\ arg.response.status = 200
    /\ ret.kind = "Ok" /\ AllAbsent(ret.sub) /\ log = << >>

(***************************************************************************)
(* Claims about parse_nav_links (SpecNav)                                  *)
(***************************************************************************)
\* the parts of the markup between the separators
NavParts(description) == Split(description, Pipe)

IsAnchor(n) == n.tag = "a"

\* the digits of an href holding "/view/<digits>", None without one
ViewDigits(href) ==
    IF href = None THEN None
    ELSE LET h == Unwrap(href)
             hits == { i \in 1..(Len(h) - 1) : h[i] = "/view/" /\ IsDigits(h[i + 1]) }
         IN IF hits = {} THEN None
            ELSE Some(DigitsOf[h[(CHOOSE i \in hits : \A j \in hits : i <= j) + 1]])

\* the ids of the anchors of a part whose href matches /view/<digits>
MatchingIds(part) ==
    { Unwrap(ViewDigits(part[i].href)) :
        i \in { j \in 1..Len(part) : IsAnchor(part[j]) /\ ViewDigits(part[j].href) # None } }

Slots(nav) == <<nav.prev, nav.first, nav.next>>

\* C9 as stated: with at least three parts the result is Some, and each
\* slot is Some(id) exactly when its part holds an anchor whose href
\* matches /view/<digits>, id being those digits.
C9_SlotIffMatchingAnchor ==
    (Returned("parse_nav_links") /\ Len(NavParts(arg.description)) >= 3) =>
        /\ ret # None
        /\ \A k \in 1..3 :
              LET part == NavParts(arg.description)[k]
                  slot == Slots(Unwrap(ret))[k]
              IN /\ (slot # None) <=> (MatchingIds(part) # {})
                 /\ slot # None => Unwrap(slot) \in MatchingIds(part)

FitsI32(digits) == DigitsLeq(StripZeros(digits), I32Max)

\* C9 amended: each slot is decided by the first anchor of its part alone:
\* Some(id) exactly when that anchor's href matches /view/<digits> and the
\* digits fit an i32; None otherwise, and None when the part has no anchor.
C9_SlotIffFirstAnchorMatches ==
    (Returned("parse_nav_links") /\ Len(NavParts(arg.description)) >= 3) =>
        /\ ret # None
        /\ \A k \in 1..3 :
              LET part    == NavParts(arg.description)[k]
                  slot    == Slots(Unwrap(ret))[k]
                  anchors == { i \in 1..Len(part) : IsAnchor(part[i]) }
                  first   == CHOOSE i \in anchors : \A j \in anchors : i <= j
              IN IF anchors = {} THEN slot = None
                 ELSE IF ViewDigits(part[first].href) # None
                         /\ FitsI32(Unwrap(ViewDigits(part[first].href)))
                 THEN slot = Some(StripZeros(Unwrap(ViewDigits(part[first].href))))
                 ELSE slot = None

\* prev without a link, first and next with one, as on the first page of a
\* sequence
C9_Witness ==
    /\ Returned("parse_nav_links")
    /\ arg.description = << TextNode("NEXT"), Pipe,
                            Anchor(Some(<<"/view/", "37545307">>)), Pipe,
                            Anchor(Some(<<"https://www.furaffinity.net", "/view/",
                                          "37545317", "/">>)) >>
    /\ ret = Some(NavLinks(None, Some(<<3,7,5,4,5,3,0,7>>), Some(<<3,7,5,4,5,3,1,7>>)))

(***************************************************************************)
(* Claims about latest_id (SpecFront)                                      *)
(***************************************************************************)
\* the digit runs of the online-stats text, in order
StatsRuns(page) ==
    IF page.ONLINE_STATS = None THEN << >>
    ELSE LET t == Unwrap(page.ONLINE_STATS)
         IN [ i \in 1..Cardinality({ j \in 1..Len(t) : IsDigits(t[j]) }) |->
                DigitsOf[t[CHOOSE j \in 1..Len(t) :
                            /\ IsDigits(t[j])
                            /\ Cardinality({ m \in 1..j : IsDigits(t[m]) }) = i]] ]

Counts(online) == <<online.total, online.guests, online.registered, online.other>>

\* whether the latest-submission link alone lets latest_id succeed
LinkGivesId(page) ==
    /\ page.LATEST_SUBMISSION # None
    /\ Unwrap(page.LATEST_SUBMISSION).href # None
    /\ LET href == Unwrap(Unwrap(page.LATEST_SUBMISSION).href)
           segs == { i \in 1..Len(href) : href[i] # "/" }
       IN /\ segs # {}
          /\ LET last == CHOOSE i \in segs : \A j \in segs : j <= i
             IN IsDigits(href[last]) /\ FitsI32(DigitsOf[href[last]])
                /\ (last = 1 \/ href[last - 1] = "/")

Parsed == Returned("latest_id") /\ log = <<"fetch", "status", "body", "parse">>

\* C10 as stated: no error comes from the online counts, the k-th of the
\* first four digit runs is the k-th count, missing ones are zero, and Ok
\* or Err depends on the link alone.
C10_FirstFourRunsByPosition ==
    Parsed =>
        LET page == Unwrap(arg.response.body)
        IN /\ (ret.kind = "Ok") <=> LinkGivesId(page)
           /\ ret.kind = "Ok" =>
                 \A k \in 1..4 :
                    Counts(ret.online)[k] =
                       IF k <= Len(StatsRuns(page))
                       THEN StripZeros(StatsRuns(page)[k]) ELSE Zero

FitsUsize(digits) == DigitsLeq(StripZeros(digits), UsizeMax)

\* C10 amended: the counts are the first four digit runs that fit a usize,
\* by position among those; runs that do not fit are skipped.
C10_FirstFourParsableRuns ==
    Parsed =>
        LET page == Unwrap(arg.response.body)
            fit  == SelectSeq(StatsRuns(page), FitsUsize)
        IN /\ (ret.kind = "Ok") <=> LinkGivesId(page)
           /\ ret.kind = "Ok" =>
                 \A k \in 1..4 :
                    Counts(ret.online)[k] =
                       IF k <= Len(fit) THEN StripZeros(fit[k]) ELSE Zero

\* two runs only, the first with leading zeros
C10_Witness ==
    /\ Parsed
    /\ Unwrap(arg.response.body).ONLINE_STATS = Some(StatsText(<<"007", "5">>))
    /\ ret.kind = "Ok"
    /\ Counts(ret.online) = << <<7>>, <<5>>, <<0>>, <<0>> >>

====
